---------------------------- MODULE Spec2Model ----------------------------
(***************************************************************************)
(* A model of "The Purrmachine" (src/purr.ino): the breath-cycle tick loop *)
(* loop(), the switch interrupt handleInterrupt(), the derived-timing      *)
(* computation and the saturating sample conversion floatToSigned().       *)
(*                                                                         *)
(* C `float` values are modelled bit-exactly as IEEE-754 binary32 numbers  *)
(* (round to nearest, ties to even); TLC integers are 32 bits wide, so the *)
(* 48-bit products are computed in 12-bit limbs.                           *)
(***************************************************************************)
EXTENDS Integers, Sequences, FiniteSets, TLC

(***************************************************************************)
(* binary32 arithmetic.  A float is a record                               *)
(*   [k |-> "fin", s |-> 1 or -1, m |-> mantissa, e |-> exponent]          *)
(* of value s * m * 2^e, with m = 0 (zero; e = 0, s = 1) or                *)
(* 2^23 <= m < 2^24; k = "inf" is a signed infinity and k = "nan" a NaN.   *)
(* The sign of a zero is not kept (no operation of the program observes    *)
(* it) and subnormal results are not produced by the bounded inputs.       *)
(***************************************************************************)
FZero == [k |-> "fin", s |-> 1, m |-> 0, e |-> 0]

FNaN == [k |-> "nan", s |-> 1, m |-> 0, e |-> 0]

FInf(sgn) == [k |-> "inf", s |-> sgn, m |-> 0, e |-> 0]

IsFinite(x) == x.k = "fin"

IsZero(x) == x.k = "fin" /\ x.m = 0

\* number of bits of n, 0 <= n < 2^30
BitLen(n) ==
    IF n >= 16777216
    THEN (IF n < 134217728
          THEN (IF n < 33554432 THEN 25 ELSE IF n < 67108864 THEN 26 ELSE 27)
          ELSE (IF n < 268435456 THEN 28 ELSE IF n < 536870912 THEN 29 ELSE 30))
    ELSE CHOOSE b \in 0..24 : (b = 0 \/ 2^(b-1) <= n) /\ n < 2^b

\* the float nearest to sgn * n * 2^ex (ties to even), for 0 <= n < 2^30;
\* `sticky` says that nonzero bits below n were dropped by the caller
FRound(sgn, n, ex, sticky) ==
    IF n = 0 THEN FZero
    ELSE LET b == BitLen(n) IN
         IF b <= 24
         THEN [k |-> "fin", s |-> sgn, m |-> n * 2^(24-b), e |-> ex - (24-b)]
         ELSE LET sh   == b - 24
                  q    == n \div 2^sh
                  r    == n % 2^sh
                  half == 2^(sh-1)
                  up   == r > half \/ (r = half /\ (sticky \/ q % 2 = 1))
                  q1   == IF up THEN q + 1 ELSE q
              IN  IF q1 = 2^24
                  THEN [k |-> "fin", s |-> sgn, m |-> 2^23, e |-> ex + sh + 1]
                  ELSE [k |-> "fin", s |-> sgn, m |-> q1, e |-> ex + sh]

\* (float)n for a C int or unsigned int n, |n| < 2^30
IntToFloat(n) == IF n < 0 THEN FRound(-1, -n, 0, FALSE) ELSE FRound(1, n, 0, FALSE)

FNeg(x) == IF x.k = "nan" \/ IsZero(x) THEN x ELSE [x EXCEPT !.s = -x.s]

\* a * b
FMul(a, b) ==
    IF a.k = "nan" \/ b.k = "nan" THEN FNaN
    ELSE IF a.k = "inf" \/ b.k = "inf"
         THEN IF IsZero(a) \/ IsZero(b) THEN FNaN ELSE FInf(a.s * b.s)
    ELSE IF a.m = 0 \/ b.m = 0 THEN FZero
    ELSE LET ah   == a.m \div 4096
             al   == a.m % 4096
             bh   == b.m \div 4096
             bl   == b.m % 4096
             mid  == ah * bl + al * bh
             t    == (mid % 4096) * 4096 + al * bl
             hi   == ah * bh + mid \div 4096 + t \div 16777216
             lo   == t % 16777216
             \* a.m * b.m = hi * 2^24 + lo, 2^22 <= hi < 2^24
         IN  FRound(a.s * b.s, hi * 64 + lo \div 262144,
                    a.e + b.e + 18, lo % 262144 # 0)

\* 26 more quotient bits of r / d, seven at a time: <<quotient, remainder>>
DivSteps(q, r, d) ==
    LET q1 == q * 128 + (r * 128) \div d
        r1 == (r * 128) % d
        q2 == q1 * 128 + (r1 * 128) \div d
        r2 == (r1 * 128) % d
        q3 == q2 * 128 + (r2 * 128) \div d
        r3 == (r2 * 128) % d
    IN  <<q3 * 32 + (r3 * 32) \div d, (r3 * 32) % d>>

\* a / b
FDiv(a, b) ==
    IF a.k = "nan" \/ b.k = "nan" THEN FNaN
    ELSE IF a.k = "inf" THEN (IF b.k = "inf" THEN FNaN ELSE FInf(a.s * b.s))
    ELSE IF b.k = "inf" THEN FZero
    ELSE IF b.m = 0 THEN (IF a.m = 0 THEN FNaN ELSE FInf(a.s))
    ELSE IF a.m = 0 THEN FZero
    ELSE LET qr == DivSteps(a.m \div b.m, a.m % b.m, b.m)
         IN  FRound(a.s * b.s, qr[1], a.e - b.e - 26, qr[2] # 0)

\* |a| < |b| for finite a, b
MagLess(a, b) ==
    IF b.m = 0 THEN FALSE
    ELSE IF a.m = 0 THEN TRUE
    ELSE a.e < b.e \/ (a.e = b.e /\ a.m < b.m)

\* a < b (false when either is a NaN)
FLess(a, b) ==
    IF a.k = "nan" \/ b.k = "nan" THEN FALSE
    ELSE IF a.k = "inf" THEN a.s = -1 /\ ~(b.k = "inf" /\ b.s = -1)
    ELSE IF b.k = "inf" THEN b.s = 1
    ELSE IF IsZero(a) THEN ~IsZero(b) /\ b.s = 1
    ELSE IF IsZero(b) THEN a.s = -1
    ELSE IF a.s # b.s THEN a.s = -1
    ELSE IF a.s = 1 THEN MagLess(a, b) ELSE MagLess(b, a)

\* a + b for finite a, b, |a| >= |b| > 0: three guard bits, the last one sticky
AddAligned(a, b) ==
    LET d   == a.e - b.e
        big == a.m * 8
        q   == (b.m * 8) \div 2^d
        sm  == IF d >= 27 THEN 1
               ELSE IF (b.m * 8) % 2^d # 0 /\ q % 2 = 0 THEN q + 1 ELSE q
        sum == IF a.s = b.s THEN big + sm ELSE big - sm
    IN  FRound(a.s, sum, a.e - 3, FALSE)

\* a + b
FAdd(a, b) ==
    IF a.k = "nan" \/ b.k = "nan" THEN FNaN
    ELSE IF a.k = "inf"
         THEN (IF b.k = "inf" /\ b.s # a.s THEN FNaN ELSE a)
    ELSE IF b.k = "inf" THEN b
    ELSE IF b.m = 0 THEN a
    ELSE IF a.m = 0 THEN b
    ELSE IF MagLess(a, b) THEN AddAligned(b, a) ELSE AddAligned(a, b)

\* the integer part of a finite x, truncated towards zero (C float -> integer
\* conversion), for |x| < 2^30
FTrunc(x) ==
    IF x.m = 0 THEN 0
    ELSE IF x.e >= 0 THEN x.s * x.m * 2^(x.e)
    ELSE IF x.e <= -24 THEN 0
    ELSE x.s * (x.m \div 2^(-x.e))

\* roundf(x) as an integer, for finite |x| < 2^30: nearest, ties away from zero
RoundAway(x) ==
    IF x.m = 0 THEN 0
    ELSE IF x.e >= 0 THEN x.s * x.m * 2^(x.e)
    ELSE IF x.e <= -25 THEN 0
    ELSE LET d == 2^(-x.e)
         IN  x.s * (x.m \div d + (IF 2 * (x.m % d) >= d THEN 1 ELSE 0))

\* a positive literal, already normalised
F(m, e) == [k |-> "fin", s |-> 1, m |-> m, e |-> e]

\* the float n * 2^e, n >= 0
Dy(n, e) == FRound(1, n, e, FALSE)

(***************************************************************************)
(* Program constants and the purr configuration                            *)
(***************************************************************************)
SAMPLE_RATE == 44100

S16_MAX == 32767

DebounceMs == 200

SetupDelayMs == 1000

FilterOrder == 3

\* Arduino's PI, narrowed to binary32
PI == F(13176795, -22)

FOne == F(8388608, -23)

FHalf == F(8388608, -24)

\* the configuration globals as the source initialises them
DefaultParams ==
    [ inh_ampl       |-> F(13421773, -26),                 \* 0.2
      exh_ampl       |-> FMul(F(13421773, -26), FHalf),    \* inh_ampl * 0.5
      inh_imp_freq   |-> F(15728640, -19),                 \* 30.0
      inh_imp_invwid |-> F(13421773, -26),                 \* 0.2
      inh_imp_fwdwid |-> F(10066330, -25),                 \* 0.3
      exh_imp_freq   |-> F(14680064, -19),                 \* 28.0
      exh_imp_invwid |-> F(13421773, -26),                 \* 0.2
      exh_imp_fwdwid |-> F(10066330, -25),                 \* 0.3
      inhale_time    |-> F(10066330, -23),                 \* 1.2
      exhale_factor  |-> F(10905190, -23),                 \* 1.3
      breath_hold    |-> F(13421773, -27),                 \* 0.1
      breath_rest    |-> FHalf ]                           \* 0.5

VARIABLES
    params,               \* the configuration globals (inh_ampl .. breath_rest)
    PurrConfigUpdate,     \* "set when settings have changed"
    ub_int,               \* what this build's float -> integer conversion
                          \* yields for an operand the target cannot hold
    soundactive_toggle,   \* volatile flag written by the interrupt
    last_interrupt_time,  \* handleInterrupt's static
    timing,               \* loop()'s impulse thresholds and cycle timings
    imp_time_samps,
    cyc_time_samps,
    yields,
    first,
    soundactive_latched,
    toggled,              \* a toggle has been applied since setup()
    report,               \* what this iteration of loop() printed: <<>> or
                          \* <<yields, switch>>
    prev_edge,            \* millis() at the last switch edge, 0 before any
    vocalFilter,          \* the filter's history
    imp_samp,             \* the enveloped impulse sample fed to the filter
    filtered_impulse,
    samp,                 \* <<left, right>>
    pc,                   \* where loop() stands: "top", "clear", "gen", "emit"
    raised,               \* requests raised since the last wrap read the flag
    raised_eff,           \* ... those not raised between that read and clear
    wrap_reqs,            \* raised_eff as the wrap of the current tick found it
    delivered,            \* pairs the sink accepted in this iteration of loop()
    out,                  \* the pair the sink accepted last
    same_toggles,         \* every interrupt so far reached all runs at one place
    scan_phase,           \* the phase the impulse generator is driven in
    wave,                 \* its raw samples so far, equal neighbours merged
    conv_in,              \* the sample handed to floatToSigned, in 2^-ConvFracBits
    conv_out              \* what floatToSigned returned

envVars == <<params, PurrConfigUpdate, ub_int>>

synthVars == <<timing, imp_time_samps, cyc_time_samps, first, vocalFilter,
               imp_samp, filtered_impulse, samp>>

reqVars == <<raised, raised_eff, wrap_reqs>>

gateVars == <<soundactive_latched, toggled>>

logVars == <<report, prev_edge>>

sinkVars == <<delivered, out>>

\* the state of the function-level specifications
unitVars == <<scan_phase, wave, conv_in, conv_out>>

vars == <<envVars, soundactive_toggle, last_interrupt_time, synthVars,
          yields, gateVars, logVars, pc, reqVars, sinkVars, same_toggles,
          unitVars>>

\* the runs of loop() side by side in the state (one, or two to compare)
Runs == DOMAIN pc

(***************************************************************************)
(* Conversions and library calls                                           *)
(***************************************************************************)
\* |x| < 2^30: the integer part of x fits the model's integers
FitsInt(x) == IsFinite(x) /\ (x.m = 0 \/ x.e <= 6)

\* (int)x; out of range or NaN is undefined behaviour
FloatToInt(x) == IF FitsInt(x) THEN FTrunc(x) ELSE ub_int

\* (unsigned int)x; a value <= -1, out of range or NaN is undefined behaviour
\* (an all-ones result is carried as the largest integer of the model)
FloatToUInt(x) ==
    IF FitsInt(x) /\ FTrunc(x) >= 0 THEN FTrunc(x)
    ELSE IF ub_int = 0 THEN 0 ELSE 2147483647

\* a < b where a is unsigned and b an int (b is converted to unsigned)
ULess(a, b) == IF b < 0 THEN TRUE ELSE a < b

\* sin(k * pi / 12), k = 0..12
SinTable ==
    << FZero, F(8684526, -25), F(8388608, -24), F(11863283, -24),
       F(14529495, -24), F(16205546, -24), F(8388608, -23),
       F(16205546, -24), F(14529495, -24), F(11863283, -24),
       F(8388608, -24), F(8684526, -25), FZero >>

\* (2j - 1) * pi / 24, j = 1..12
SinSteps ==
    << F(8784530, -26), F(13176795, -25), F(10980662, -24),
       F(15372927, -24), F(9882596, -23), F(12078728, -23),
       F(14274861, -23), F(16470993, -23), F(9333563, -22),
       F(10431629, -22), F(11529695, -22), F(12627762, -22) >>

\* sinf(x) of the C library, which is not part of the repository: its value
\* at the nearest multiple of pi/12 for x in [0, pi]; NaN for a NaN or an
\* infinity; outside [0, pi] (reached only through an uninitialised
\* `progress`) some finite value of the range of sinf
sinf(x) ==
    IF ~IsFinite(x) THEN FNaN
    ELSE IF x.s = -1 THEN FZero
    ELSE SinTable[1 + Cardinality({j \in 1..12 : ~FLess(x, SinSteps[j])})]

\* Filter::filterIn of libFilter, which is not part of the repository: a
\* low-pass of order FilterOrder whose state is its last FilterOrder inputs
\* (the mean of the input and the state); <<output, next state>>
filterIn(state, x) ==
    << FMul(FAdd(FAdd(x, state[1]), FAdd(state[2], state[3])), F(8388608, -25)),
       <<x, state[1], state[2]>> >>

\* floatToSigned without ROUNDCONV: the product is truncated
floatToSignedTrunc(x) ==
    IF FLess(FOne, x) THEN S16_MAX
    ELSE IF FLess(x, FNeg(FOne)) THEN -S16_MAX
    ELSE FloatToInt(FMul(x, IntToFloat(S16_MAX)))

\* floatToSigned with ROUNDCONV defined
floatToSigned(x) ==
    IF FLess(FOne, x) THEN S16_MAX
    ELSE IF FLess(x, FNeg(FOne)) THEN -S16_MAX
    ELSE LET p == FMul(x, IntToFloat(S16_MAX))
         IN  IF IsFinite(p) THEN RoundAway(p) ELSE ub_int

(***************************************************************************)
(* loop(): the derived timing                                              *)
(***************************************************************************)
\* the statics before the first tick
NoTiming ==
    [ inh_impulse_width_samps |-> 0, exh_impulse_width_samps |-> 0,
      inh_impulse_revtime     |-> 0, exh_impulse_revtime     |-> 0,
      inh_impulse_fwdtime     |-> 0, exh_impulse_fwdtime     |-> 0,
      inh_impulse_n |-> 0, hold_n |-> 0, exh_impulse_n |-> 0, rest_n |-> 0 ]

\* the config cache left as it was
StaleConfig(p) == NoTiming

\* "Update local config cache": the impulse thresholds and the sample points
\* where the phase changes
UpdateConfig(p) ==
    LET rate  == IntToFloat(SAMPLE_RATE)
        iw    == FloatToUInt(FDiv(rate, p.inh_imp_freq))
        ew    == FloatToUInt(FDiv(rate, p.exh_imp_freq))
        irev  == FloatToUInt(FMul(IntToFloat(iw), p.inh_imp_invwid))
        ifwd  == FloatToUInt(FAdd(IntToFloat(irev),
                                   FMul(IntToFloat(iw), p.inh_imp_fwdwid)))
        erev  == FloatToUInt(FMul(IntToFloat(ew), p.exh_imp_invwid))
        efwd  == FloatToUInt(FAdd(IntToFloat(erev),
                                   FMul(IntToFloat(ew), p.exh_imp_fwdwid)))
        inh   == FloatToInt(FMul(rate, p.inhale_time))
        hold  == FloatToInt(FAdd(IntToFloat(inh), FMul(rate, p.breath_hold)))
        exh   == FloatToInt(FAdd(IntToFloat(hold),
                                  FMul(FMul(rate, p.inhale_time), p.exhale_factor)))
        rest  == FloatToInt(FAdd(IntToFloat(exh), FMul(rate, p.breath_rest)))
    IN  [ inh_impulse_width_samps |-> iw,   exh_impulse_width_samps |-> ew,
          inh_impulse_revtime     |-> irev, exh_impulse_revtime     |-> erev,
          inh_impulse_fwdtime     |-> ifwd, exh_impulse_fwdtime     |-> efwd,
          inh_impulse_n |-> inh, hold_n |-> hold,
          exh_impulse_n |-> exh, rest_n |-> rest ]

(***************************************************************************)
(* loop(): the impulse generator                                           *)
(***************************************************************************)
\* the branch of the if-chain taken at cycle time c
Phase(c, t) ==
    IF ULess(c, t.inh_impulse_n) THEN "INHALE"
    ELSE IF ULess(c, t.hold_n) THEN "HOLD"
    ELSE IF ULess(c, t.exh_impulse_n) THEN "EXHALE"
    ELSE "REST"

\* the reset taken only when the time is more than the width
ImpulsePosLate(ph, i, t) ==
    IF ph = "INHALE" /\ i > t.inh_impulse_width_samps THEN 0
    ELSE IF ph = "EXHALE" /\ i > t.exh_impulse_width_samps THEN 0
    ELSE i

\* an impulse time that starts again while holding and resting
ImpulsePosPauseReset(ph, i, t) ==
    IF ph = "INHALE" /\ i >= t.inh_impulse_width_samps THEN 0
    ELSE IF ph = "EXHALE" /\ i >= t.exh_impulse_width_samps THEN 0
    ELSE IF ph \in {"HOLD", "REST"} THEN 0
    ELSE i

\* imp_time_samps after "if time in samples is more than the impulse width,
\* reset"
ImpulsePos(ph, i, t) ==
    IF ph = "INHALE" /\ i >= t.inh_impulse_width_samps THEN 0
    ELSE IF ph = "EXHALE" /\ i >= t.exh_impulse_width_samps THEN 0
    ELSE i

\* the waveform with its two pulses in the other order
PulseSwapped(i, revtime, fwdtime, first_ampl, second_ampl) ==
    IF i = 0 THEN FZero
    ELSE IF i < revtime THEN second_ampl
    ELSE IF i < fwdtime THEN first_ampl
    ELSE FZero

\* the three-segment waveform: 0, first pulse, second pulse, 0
Pulse(i, revtime, fwdtime, first_ampl, second_ampl) ==
    IF i = 0 THEN FZero
    ELSE IF i < revtime THEN first_ampl
    ELSE IF i < fwdtime THEN second_ampl
    ELSE FZero

\* imp_samp before the envelope, at impulse time i (after the reset)
RawSample(ph, i, t, p) ==
    IF ph = "INHALE"
    THEN Pulse(i, t.inh_impulse_revtime, t.inh_impulse_fwdtime,
               FNeg(p.inh_ampl), p.inh_ampl)
    ELSE IF ph = "EXHALE"
    THEN Pulse(i, t.exh_impulse_revtime, t.exh_impulse_fwdtime,
               p.exh_ampl, FNeg(p.exh_ampl))
    ELSE FZero

\* `progress`: assigned while inhaling and exhaling, otherwise the
\* uninitialised local is read
Progress(ph, c, t, uninit) ==
    IF ph = "INHALE"
    THEN FDiv(IntToFloat(c), IntToFloat(t.inh_impulse_n))
    ELSE IF ph = "EXHALE"
    THEN FDiv(IntToFloat(c - t.hold_n), IntToFloat(t.exh_impulse_n - t.hold_n))
    ELSE uninit

\* the cycle time moving on by two samples
SkipsSample(c, t) == IF ULess(c + 2, t.rest_n) THEN c + 2 ELSE 0

\* cyc_time_samps after "move to next cycle time too"
NextCycleTime(c, t) == IF ULess(c + 1, t.rest_n) THEN c + 1 ELSE 0

\* the sample pair without the gate
OutputUngated(latched, filtered) ==
    <<floatToSigned(filtered), floatToSigned(filtered)>>

\* the sample pair with the gate the other way round
OutputInverted(latched, filtered) ==
    IF latched
    THEN <<0, 0>>
    ELSE <<floatToSigned(filtered), floatToSigned(filtered)>>

\* the sample pair handed to the sink
OutputPair(latched, filtered) ==
    IF latched
    THEN <<floatToSigned(filtered), floatToSigned(filtered)>>
    ELSE <<0, 0>>

(***************************************************************************)
(* Bounds of the model                                                     *)
(***************************************************************************)
MaxYields == 2        \* rejections a breath cycle may collect

MaxReq == 2           \* toggle requests counted between two wraps

ClockStep == 150      \* milliseconds between the clock values read

MaxClockSteps == 1    \* clock values read, after the first

\* what millis() can return in handleInterrupt: the handler is attached after
\* setup()'s delay(1000)
Millis == {SetupDelayMs + k * ClockStep : k \in 0..MaxClockSteps}

\* what the build can yield for an undefined float -> integer conversion
UbInts == {0, -1}

\* what the uninitialised `progress` can hold
UninitFloats == {FHalf, FNaN}

\* inhale 2 samples (0, -), hold 1, no exhale, no rest
TinyBreath ==
    [ DefaultParams EXCEPT
        !.inh_imp_freq   = IntToFloat(11025),
        !.inh_imp_invwid = FHalf,
        !.inhale_time    = Dy(1, -14),
        !.exhale_factor  = Dy(1, -2),
        !.breath_hold    = Dy(1, -15),
        !.breath_rest    = FZero ]

\* a short breath: inhale 4 samples (one 4-sample impulse: 0, -, +, 0),
\* hold 1, exhale 3 (3-sample impulses), rest 1
ShortBreath ==
    [ DefaultParams EXCEPT
        !.inh_imp_freq   = IntToFloat(11025),
        !.inh_imp_invwid = FHalf,
        !.exh_imp_freq   = IntToFloat(14700),
        !.exh_imp_invwid = FHalf,
        !.inhale_time    = Dy(3, -15),
        !.exhale_factor  = Dy(3, -2),
        !.breath_hold    = Dy(1, -15),
        !.breath_rest    = Dy(1, -15) ]

\* no hold and no rest: inhale 2 samples, exhale 2
NoPause ==
    [ ShortBreath EXCEPT
        !.inhale_time   = Dy(1, -14),
        !.exhale_factor = FOne,
        !.breath_hold   = FZero,
        !.breath_rest   = FZero ]

\* an inhale shorter than one sample (7.6 us): inhale 0, hold 1, exhale 2,
\* rest 1
NoInhale ==
    [ ShortBreath EXCEPT !.inhale_time = Dy(1, -17), !.exhale_factor = Dy(8, 0) ]

\* inhale impulses of 88200 Hz, twice the sample rate: their width is 0
HighPitch == [ShortBreath EXCEPT !.inh_imp_freq = IntToFloat(88200)]

(***************************************************************************)
(* The state after setup()                                                 *)
(***************************************************************************)
InitRuns(R, P, U) ==
    /\ params \in P
    /\ PurrConfigUpdate = TRUE
    /\ ub_int \in U
    /\ soundactive_toggle = [r \in R |-> FALSE]
    /\ last_interrupt_time = [r \in R |-> 0]
    /\ timing = [r \in R |-> NoTiming]
    /\ imp_time_samps = [r \in R |-> 0]
    /\ cyc_time_samps = [r \in R |-> 0]
    /\ yields = [r \in R |-> 0]
    /\ first = [r \in R |-> TRUE]
    /\ soundactive_latched = [r \in R |-> FALSE]
    /\ toggled = [r \in R |-> FALSE]
    /\ report = [r \in R |-> <<>>]
    /\ prev_edge = 0
    /\ vocalFilter = [r \in R |-> <<FZero, FZero, FZero>>]
    /\ imp_samp = [r \in R |-> FZero]
    /\ filtered_impulse = [r \in R |-> FZero]
    /\ samp = [r \in R |-> <<0, 0>>]
    /\ raised = [r \in R |-> 0]
    /\ raised_eff = [r \in R |-> 0]
    /\ wrap_reqs = [r \in R |-> 0]
    /\ delivered = [r \in R |-> 0]
    /\ out = [r \in R |-> <<0, 0>>]
    /\ same_toggles = TRUE
    /\ wave = <<>>
    /\ conv_out = 0

Init ==
    /\ InitRuns({1}, {ShortBreath, NoPause, NoInhale, HighPitch}, UbInts)
    /\ pc = [r \in {1} |-> "top"]
    /\ scan_phase = "REST"
    /\ conv_in = 0

(***************************************************************************)
(* handleInterrupt(): a falling edge of the switch, seen by the runs R     *)
(***************************************************************************)
\* "If interrupts come faster than 200ms, assume it's a bounce and ignore"
Debounced(interrupt_time, last_time) == interrupt_time - last_time > DebounceMs

\* the handler inverting the flag instead of setting it
handleInterruptFlips(R) ==
    \E interrupt_time \in Millis :
        LET sets(r) ==
                r \in R /\ Debounced(interrupt_time, last_interrupt_time[r])
        IN  /\ \A r \in R : raised[r] < MaxReq
            /\ interrupt_time >= prev_edge
            /\ prev_edge' = interrupt_time
            /\ soundactive_toggle' =
                  [r \in Runs |-> IF sets(r) THEN ~soundactive_toggle[r]
                                  ELSE soundactive_toggle[r]]
            /\ raised' =
                  [r \in Runs |-> IF sets(r) THEN raised[r] + 1 ELSE raised[r]]
            /\ raised_eff' =
                  [r \in Runs |-> IF sets(r) /\ pc[r] # "clear"
                                  THEN raised_eff[r] + 1 ELSE raised_eff[r]]
            /\ same_toggles' =
                  (same_toggles /\ R = Runs /\ \A q, r \in Runs : pc[q] = pc[r])
            /\ UNCHANGED <<envVars, report, last_interrupt_time, synthVars,
                           yields, gateVars, pc, wrap_reqs, sinkVars,
                           unitVars>>

handleInterrupt(R) ==
    \E interrupt_time \in Millis :
        LET sets(r) ==
                r \in R /\ Debounced(interrupt_time, last_interrupt_time[r])
        IN  /\ \A r \in R : raised[r] < MaxReq
            /\ interrupt_time >= prev_edge
            /\ prev_edge' = interrupt_time
            /\ soundactive_toggle' =
                  [r \in Runs |-> IF sets(r) THEN TRUE
                                  ELSE soundactive_toggle[r]]
            /\ raised' =
                  [r \in Runs |-> IF sets(r) THEN raised[r] + 1 ELSE raised[r]]
            /\ raised_eff' =
                  [r \in Runs |-> IF sets(r) /\ pc[r] # "clear"
                                  THEN raised_eff[r] + 1 ELSE raised_eff[r]]
            /\ same_toggles' =
                  (same_toggles /\ R = Runs /\ \A q, r \in Runs : pc[q] = pc[r])
            /\ UNCHANGED <<envVars, report, last_interrupt_time, synthVars,
                           yields, gateVars, pc, wrap_reqs, sinkVars,
                           unitVars>>

(***************************************************************************)
(* The purr settings written from outside loop()                           *)
(***************************************************************************)
\* ShortBreath with an inhale impulse frequency of 0 Hz
ZeroInhale == [ShortBreath EXCEPT !.inh_imp_freq = FZero]

\* ShortBreath with an inhale impulse frequency of -11025 Hz
NegInhale == [ShortBreath EXCEPT !.inh_imp_freq = FNeg(IntToFloat(11025))]

\* ShortBreath with a rest of 2 samples and 2-sample inhale impulses
LongRest ==
    [ ShortBreath EXCEPT
        !.inh_imp_freq = IntToFloat(22050),
        !.breath_rest  = Dy(2, -15) ]

TuneParams == {ShortBreath, LongRest, ZeroInhale, NegInhale}

\* the settings are plain globals: a write between two iterations of loop()
\* stores the new values and nothing else
SetParams ==
    /\ \A r \in Runs : pc[r] = "top"
    /\ \E p \in TuneParams \ {params} : params' = p
    /\ UNCHANGED <<PurrConfigUpdate, ub_int, logVars, soundactive_toggle,
                   last_interrupt_time, synthVars, yields, gateVars, pc,
                   reqVars, sinkVars, same_toggles, unitVars>>

(***************************************************************************)
(* loop(), for the runs R that take the step together                      *)
(***************************************************************************)
\* a report that would print the gate's state in place of the pending flag
CycleReportGate(r) == <<yields[r], IF soundactive_latched[r] THEN 1 ELSE 0>>

\* "purr cycle complete, yields: %d" and "switch: %d"
CycleReport(r) == <<yields[r], IF soundactive_toggle[r] THEN 1 ELSE 0>>

\* loop() stopping for good
LoopTopHalts(R) ==
    /\ \A r \in R : pc[r] = "top"
    /\ pc' = [r \in Runs |-> IF r \in R THEN "halted" ELSE pc[r]]
    /\ UNCHANGED <<envVars, logVars, soundactive_toggle, last_interrupt_time,
                   synthVars, yields, gateVars, reqVars, sinkVars,
                   same_toggles, unitVars>>

\* the cycle-complete check taking a cycle with rejections for a request
LoopTopByYields(R) ==
    LET wraps(r) == r \in R /\ cyc_time_samps[r] = 0 /\ ~first[r]
        set(r)   == soundactive_toggle[r] \/ yields[r] > 0
    IN  /\ \A r \in R : pc[r] = "top"
        /\ raised' = [r \in Runs |-> IF wraps(r) THEN 0 ELSE raised[r]]
        /\ raised_eff' = [r \in Runs |-> IF wraps(r) THEN 0 ELSE raised_eff[r]]
        /\ wrap_reqs' = [r \in Runs |-> IF wraps(r) THEN raised_eff[r]
                                        ELSE wrap_reqs[r]]
        /\ pc' = [r \in Runs |->
                    IF r \notin R THEN pc[r]
                    ELSE IF wraps(r) /\ set(r) THEN "clear"
                    ELSE "gen"]
        /\ yields' = [r \in Runs |->
                        IF wraps(r) /\ ~set(r) THEN 0 ELSE yields[r]]
        /\ delivered' = [r \in Runs |-> IF r \in R THEN 0 ELSE delivered[r]]
        /\ report' = [r \in Runs |->
                        IF r \notin R THEN report[r]
                        ELSE IF wraps(r) THEN CycleReport(r) ELSE <<>>]
        /\ UNCHANGED <<envVars, prev_edge, soundactive_toggle,
                       last_interrupt_time,
                       synthVars, gateVars, out, same_toggles,
                       unitVars>>

\* the cycle-complete check, up to the read of soundactive_toggle (when it
\* reads false, through `yields = 0`)
LoopTop(R) ==
    LET wraps(r) == r \in R /\ cyc_time_samps[r] = 0 /\ ~first[r]
    IN  /\ \A r \in R : pc[r] = "top"
        /\ raised' = [r \in Runs |-> IF wraps(r) THEN 0 ELSE raised[r]]
        /\ raised_eff' = [r \in Runs |-> IF wraps(r) THEN 0 ELSE raised_eff[r]]
        /\ wrap_reqs' = [r \in Runs |-> IF wraps(r) THEN raised_eff[r]
                                        ELSE wrap_reqs[r]]
        /\ pc' = [r \in Runs |->
                    IF r \notin R THEN pc[r]
                    ELSE IF wraps(r) /\ soundactive_toggle[r] THEN "clear"
                    ELSE "gen"]
        /\ yields' = [r \in Runs |->
                        IF wraps(r) /\ ~soundactive_toggle[r] THEN 0
                        ELSE yields[r]]
        /\ delivered' = [r \in Runs |-> IF r \in R THEN 0 ELSE delivered[r]]
        /\ report' = [r \in Runs |->
                        IF r \notin R THEN report[r]
                        ELSE IF wraps(r) THEN CycleReport(r) ELSE <<>>]
        /\ UNCHANGED <<envVars, prev_edge, soundactive_toggle,
                       last_interrupt_time,
                       synthVars, gateVars, out, same_toggles,
                       unitVars>>

\* the wrap handler leaving the flag set
WrapKeepsFlag(R) ==
    /\ \A r \in R : pc[r] = "clear"
    /\ soundactive_latched' =
          [r \in Runs |-> IF r \in R THEN ~soundactive_latched[r]
                          ELSE soundactive_latched[r]]
    /\ toggled' = [r \in Runs |-> r \in R \/ toggled[r]]
    /\ yields' = [r \in Runs |-> IF r \in R THEN 0 ELSE yields[r]]
    /\ pc' = [r \in Runs |-> IF r \in R THEN "gen" ELSE pc[r]]
    /\ UNCHANGED <<envVars, logVars, soundactive_toggle, last_interrupt_time,
                   synthVars, reqVars, sinkVars, same_toggles, unitVars>>

\* the flag was read as set: latch the toggle, clear the flag, `yields = 0`
WrapApply(R) ==
    /\ \A r \in R : pc[r] = "clear"
    /\ soundactive_latched' =
          [r \in Runs |-> IF r \in R THEN ~soundactive_latched[r]
                          ELSE soundactive_latched[r]]
    /\ toggled' = [r \in Runs |-> r \in R \/ toggled[r]]
    /\ soundactive_toggle' =
          [r \in Runs |-> IF r \in R THEN FALSE ELSE soundactive_toggle[r]]
    /\ yields' = [r \in Runs |-> IF r \in R THEN 0 ELSE yields[r]]
    /\ pc' = [r \in Runs |-> IF r \in R THEN "gen" ELSE pc[r]]
    /\ UNCHANGED <<envVars, logVars, last_interrupt_time, synthVars, reqVars,
                   sinkVars, same_toggles, unitVars>>

\* one run's iteration from `first = false` to the sample pair: the config
\* cache, the impulse generator, the envelope, the filter and the conversion
Tick(r, t, uninit) ==
    LET c    == cyc_time_samps[r]
        ph   == Phase(c, t)
        pos  == ImpulsePos(ph, imp_time_samps[r], t)
        env  == sinf(FMul(Progress(ph, c, t, uninit), PI))
        in   == FMul(RawSample(ph, pos, t, params), env)
        flt  == filterIn(vocalFilter[r], in)
    IN  [ imp_time_samps |-> pos + 1,
          cyc_time_samps |-> NextCycleTime(c, t),
          imp_samp |-> in,
          vocalFilter |-> flt[2],
          filtered_impulse |-> flt[1],
          samp |-> OutputPair(soundactive_latched[r], flt[1]) ]

\* a config update that marks the cache clean
ConfigFlagCleared == FALSE

\* PurrConfigUpdate after the config update: the block does not clear it
ConfigFlagAfter == PurrConfigUpdate

\* the ticks that read `progress` without having assigned it
ReadsUninit(t) ==
    \E r \in Runs : Phase(cyc_time_samps[r], t[r]) \in {"HOLD", "REST"}

\* the iteration up to the call of ConsumeSample.  t is the timing in force
\* in each run, n the outcome of each run's tick.  What the uninitialised
\* `progress` holds is chosen anew in every tick that reads it; runs compared
\* side by side take the tick together and differ in nothing but their
\* switch edges and rejections, so they read the same value.
Generate ==
    /\ \A r \in Runs : pc[r] = "gen"
    /\ \E cfg \in {UpdateConfig(params)} :
       \E t \in {[r \in Runs |-> IF PurrConfigUpdate THEN cfg ELSE timing[r]]} :
       \E uninit \in IF ReadsUninit(t) THEN UninitFloats ELSE {FZero} :
       \E n \in {[r \in Runs |-> Tick(r, t[r], uninit)]} :
            /\ imp_time_samps' = [r \in Runs |-> n[r].imp_time_samps]
            /\ cyc_time_samps' = [r \in Runs |-> n[r].cyc_time_samps]
            /\ imp_samp' = [r \in Runs |-> n[r].imp_samp]
            /\ vocalFilter' = [r \in Runs |-> n[r].vocalFilter]
            /\ filtered_impulse' = [r \in Runs |-> n[r].filtered_impulse]
            /\ samp' = [r \in Runs |-> n[r].samp]
            /\ timing' = t
    /\ first' = [r \in Runs |-> FALSE]
    /\ pc' = [r \in Runs |-> "emit"]
    /\ wrap_reqs' = [r \in Runs |-> 0]
    /\ PurrConfigUpdate' = ConfigFlagAfter
    /\ UNCHANGED <<params, ub_int, logVars, soundactive_toggle,
                   last_interrupt_time, yields, gateVars, raised, raised_eff,
                   sinkVars, same_toggles, unitVars>>

\* output->ConsumeSample(samp) returns true: the iteration ends
ConsumeAccept(R) ==
    /\ \A r \in R : pc[r] = "emit"
    /\ delivered' = [r \in Runs |-> IF r \in R THEN delivered[r] + 1
                                    ELSE delivered[r]]
    /\ out' = [r \in Runs |-> IF r \in R THEN samp[r] ELSE out[r]]
    /\ pc' = [r \in Runs |-> IF r \in R THEN "top" ELSE pc[r]]
    /\ UNCHANGED <<envVars, logVars, soundactive_toggle, last_interrupt_time,
                   synthVars, yields, gateVars, reqVars,
                   same_toggles, unitVars>>

\* a rejection after which the pair is given up
RejectDrops(R) ==
    /\ \A r \in R : pc[r] = "emit" /\ yields[r] < MaxYields
    /\ yields' = [r \in Runs |-> IF r \in R THEN yields[r] + 1 ELSE yields[r]]
    /\ pc' = [r \in Runs |-> IF r \in R THEN "top" ELSE pc[r]]
    /\ UNCHANGED <<envVars, logVars, soundactive_toggle, last_interrupt_time,
                   synthVars, gateVars, reqVars, sinkVars,
                   same_toggles, unitVars>>

\* output->ConsumeSample(samp) returns false: `yields++; yield();` and again
ConsumeReject(R) ==
    /\ \A r \in R : pc[r] = "emit" /\ yields[r] < MaxYields
    /\ yields' = [r \in Runs |-> IF r \in R THEN yields[r] + 1 ELSE yields[r]]
    /\ UNCHANGED <<envVars, logVars, soundactive_toggle, last_interrupt_time,
                   synthVars, gateVars, pc, reqVars, sinkVars,
                   same_toggles, unitVars>>

\* the non-empty sets of runs
Groups == (SUBSET Runs) \ {{}}

Next ==
    \/ \E R \in Groups : LoopTop(R)
    \/ \E R \in Groups : WrapApply(R)
    \/ Generate
    \/ \E R \in Groups : ConsumeAccept(R)
    \/ \E R \in Groups : ConsumeReject(R)
    \/ \E R \in Groups : handleInterrupt(R)

Spec == Init /\ [][Next]_vars


(***************************************************************************)
(* loop() under a scheduler that keeps it running and a sink that does not *)
(* reject for ever                                                         *)
(***************************************************************************)
InitFair ==
    /\ InitRuns({1}, {ShortBreath}, {0})
    /\ pc = [r \in {1} |-> "top"]
    /\ scan_phase = "REST"
    /\ conv_in = 0

\* loop() is called again and again and runs on; a pair that is submitted
\* again and again is accepted in the end.  Generate is enabled exactly when
\* loop() stands at "gen" and always leaves it, so its weak fairness is
\* stated as: loop() does not stand at "gen" for ever.
Fairness ==
    /\ WF_vars(LoopTop({1}))
    /\ WF_vars(WrapApply({1}))
    /\ []<>(pc[1] # "gen")
    /\ WF_vars(ConsumeAccept({1}))

SpecFair == InitFair /\ [][Next]_vars /\ Fairness

(***************************************************************************)
(* Two runs of loop() side by side, with the same parameters and the same  *)
(* build, stepping together.  Run 2 is the reference: its sink never       *)
(* rejects and it sees a switch edge only together with run 1; run 1 meets *)
(* rejections and edges of its own.                                        *)
(***************************************************************************)
InitPair ==
    /\ InitRuns({1, 2}, {TinyBreath}, {0})
    /\ pc = [r \in {1, 2} |-> "top"]
    /\ scan_phase = "REST"
    /\ conv_in = 0

\* the runs whose wrap handler has read the flag as set
AtClear == {r \in Runs : pc[r] = "clear"}

NextPair ==
    \/ LoopTop(Runs)
    \/ AtClear # {} /\ WrapApply(AtClear)
    \/ Generate
    \/ ConsumeAccept(Runs)
    \/ ConsumeReject({1})
    \/ handleInterrupt({1})
    \/ handleInterrupt(Runs)

SpecPair == InitPair /\ [][NextPair]_vars


(***************************************************************************)
(* loop() with the purr settings changed between its iterations            *)
(***************************************************************************)
InitTune ==
    /\ InitRuns({1}, {ShortBreath}, UbInts)
    /\ pc = [r \in {1} |-> "top"]
    /\ scan_phase = "REST"
    /\ conv_in = 0

\* the switch is left alone and the sink accepts every pair: neither touches
\* the settings or the cache
NextTune ==
    \/ LoopTop({1})
    \/ Generate
    \/ ConsumeAccept({1})
    \/ SetParams

SpecTune == InitTune /\ [][NextTune]_vars

(***************************************************************************)
(* The config update and the impulse generator on their own: the timing    *)
(* derived from a parameter set, then one impulse cycle in one phase       *)
(***************************************************************************)
MaxDur == 3           \* longest duration tried, in 2^-16 s (15.3 us)

DurGrid == {Dy(k, -16) : k \in 0..MaxDur}

FactorGrid == {FHalf, DefaultParams.exhale_factor, IntToFloat(8)}

\* <<impulse frequency, reverse width, forward width>>
ImpulseGrid ==
    { <<IntToFloat(11025), FHalf, DefaultParams.inh_imp_fwdwid>>,
      <<IntToFloat(11025), DefaultParams.inh_imp_invwid,
        DefaultParams.inh_imp_fwdwid>>,
      <<IntToFloat(14700), FHalf, DefaultParams.inh_imp_fwdwid>>,
      <<IntToFloat(4410), DefaultParams.inh_imp_invwid,
        DefaultParams.inh_imp_fwdwid>>,
      <<IntToFloat(2205), DefaultParams.inh_imp_invwid,
        DefaultParams.inh_imp_fwdwid>> }

SynthParams ==
    {DefaultParams} \cup
    { [ DefaultParams EXCEPT
          !.inh_imp_freq = i[1], !.inh_imp_invwid = i[2], !.inh_imp_fwdwid = i[3],
          !.exh_imp_freq = i[1], !.exh_imp_invwid = i[2], !.exh_imp_fwdwid = i[3],
          !.inhale_time = d[1], !.breath_hold = d[2], !.breath_rest = d[3],
          !.exhale_factor = f ] :
        i \in ImpulseGrid, d \in DurGrid \X DurGrid \X DurGrid, f \in FactorGrid }

InitSynth ==
    /\ InitRuns({1}, SynthParams, {0})
    /\ pc = [r \in {1} |-> "cfg"]
    /\ scan_phase \in {"INHALE", "EXHALE"}
    /\ conv_in = 0

\* "Update local config cache if settings have changed"
ConfigUpdate ==
    /\ pc[1] = "cfg"
    /\ PurrConfigUpdate
    /\ timing' = [timing EXCEPT ![1] = UpdateConfig(params)]
    /\ pc' = [pc EXCEPT ![1] = "scan"]
    /\ UNCHANGED <<envVars, logVars, soundactive_toggle, last_interrupt_time,
                   imp_time_samps, cyc_time_samps, first, vocalFilter, imp_samp,
                   filtered_impulse, samp, yields, gateVars, reqVars,
                   sinkVars, same_toggles, unitVars>>

\* the impulse width of the phase driven
ScanWidth ==
    IF scan_phase = "INHALE" THEN timing[1].inh_impulse_width_samps
    ELSE timing[1].exh_impulse_width_samps

\* one tick of the impulse generator in the phase scan_phase, up to
\* imp_time_samps++, until the impulse cycle is complete
ImpulseStep ==
    /\ pc[1] = "scan"
    /\ LET pos == ImpulsePos(scan_phase, imp_time_samps[1], timing[1])
           raw == RawSample(scan_phase, pos, timing[1], params)
       IN  /\ imp_samp' = [imp_samp EXCEPT ![1] = raw]
           /\ imp_time_samps' = [imp_time_samps EXCEPT ![1] = pos + 1]
           /\ wave' = IF wave # <<>> /\ wave[Len(wave)] = raw THEN wave
                      ELSE Append(wave, raw)
           /\ pc' = [pc EXCEPT ![1] = IF pos + 1 >= ScanWidth THEN "scanned"
                                      ELSE "scan"]
    /\ UNCHANGED <<envVars, logVars, soundactive_toggle, last_interrupt_time, timing,
                   cyc_time_samps, first, vocalFilter, filtered_impulse, samp,
                   yields, gateVars, reqVars, sinkVars, same_toggles,
                   scan_phase, conv_in, conv_out>>

NextSynth == ConfigUpdate \/ ImpulseStep

SpecSynth == InitSynth /\ [][NextSynth]_vars

(***************************************************************************)
(* floatToSigned on its own                                                *)
(***************************************************************************)
ConvFracBits == 10    \* the inputs are the multiples of 2^-ConvFracBits

ConvOne == 2^ConvFracBits

\* the float n * 2^-ConvFracBits (exact)
ConvFloat(n) ==
    IF n < 0 THEN FNeg(Dy(-n, -ConvFracBits)) ELSE Dy(n, -ConvFracBits)

InitConv ==
    /\ InitRuns({1}, {DefaultParams}, {0})
    /\ pc = [r \in {1} |-> "conv"]
    /\ scan_phase = "REST"
    /\ conv_in \in (-2 * ConvOne)..(2 * ConvOne)

Convert ==
    /\ pc[1] = "conv"
    /\ conv_out' = floatToSigned(ConvFloat(conv_in))
    /\ pc' = [pc EXCEPT ![1] = "converted"]
    /\ UNCHANGED <<envVars, logVars, soundactive_toggle, last_interrupt_time, synthVars,
                   yields, gateVars, reqVars, sinkVars, same_toggles,
                   scan_phase, wave, conv_in>>

SpecConv == InitConv /\ [][Convert]_vars


(***************************************************************************)
(* Properties of the derived timing (SpecSynth)                            *)
(***************************************************************************)
\* the timing has been derived
Configured == pc[1] \in {"scan", "scanned"}

\* the boundaries the spec names: inhaleEnd, holdEnd, exhaleEnd, cycleLength
inhaleEnd == timing[1].inh_impulse_n

holdEnd == timing[1].hold_n

exhaleEnd == timing[1].exh_impulse_n

cycleLength == timing[1].rest_n

\* SAMPLE_RATE * inhale_time >= 1
InhaleReachesASample ==
    ~FLess(FMul(IntToFloat(SAMPLE_RATE), params.inhale_time), FOne)

\* C6, as stated: for every valid parameter set the boundaries satisfy
\* 0 < inhaleEnd <= holdEnd <= exhaleEnd <= cycleLength
C6_AsStated ==
    Configured =>
        /\ 0 < inhaleEnd
        /\ inhaleEnd <= holdEnd
        /\ holdEnd <= exhaleEnd
        /\ exhaleEnd <= cycleLength

\* C6, amended: for every parameter set of the grid the boundaries satisfy
\* 0 <= inhaleEnd <= holdEnd <= exhaleEnd <= cycleLength, and inhaleEnd is
\* positive exactly when the inhale lasts at least one sample
C6_Boundaries ==
    Configured =>
        /\ 0 <= inhaleEnd
        /\ inhaleEnd <= holdEnd
        /\ holdEnd <= exhaleEnd
        /\ exhaleEnd <= cycleLength
        /\ (0 < inhaleEnd) <=> InhaleReachesASample

\* a timing with four phases of different lengths has been derived
C6_Witness ==
    /\ Configured
    /\ 0 < inhaleEnd
    /\ inhaleEnd < holdEnd
    /\ holdEnd < exhaleEnd
    /\ exhaleEnd < cycleLength

\* C7, as stated: the default parameters give inhaleEnd = 52920,
\* holdEnd = 57330, exhaleEnd = 126048 and cycleLength = 148098
C7_AsStated ==
    (Configured /\ params = DefaultParams) =>
        /\ inhaleEnd = 52920
        /\ holdEnd = 57330
        /\ exhaleEnd = 126048
        /\ cycleLength = 148098

\* C7, amended: the default parameters give inhaleEnd = 52920,
\* holdEnd = 57330, exhaleEnd = 126126 and cycleLength = 148176
C7_DefaultBoundaries ==
    (Configured /\ params = DefaultParams) =>
        /\ inhaleEnd = 52920
        /\ holdEnd = 57330
        /\ exhaleEnd = 126126
        /\ cycleLength = 148176

\* the timing of the default parameters has been derived
C7_Witness == Configured /\ params = DefaultParams /\ cycleLength > 0

(***************************************************************************)
(* Properties of the impulse generator (SpecSynth)                         *)
(***************************************************************************)
\* the thresholds and the amplitudes of the phase driven
ScanRev ==
    IF scan_phase = "INHALE" THEN timing[1].inh_impulse_revtime
    ELSE timing[1].exh_impulse_revtime

ScanFwd ==
    IF scan_phase = "INHALE" THEN timing[1].inh_impulse_fwdtime
    ELSE timing[1].exh_impulse_fwdtime

ScanFirst ==
    IF scan_phase = "INHALE" THEN FNeg(params.inh_ampl) ELSE params.exh_ampl

ScanSecond ==
    IF scan_phase = "INHALE" THEN params.inh_ampl ELSE FNeg(params.exh_ampl)

InWave(v) == \E i \in 1..Len(wave) : wave[i] = v

Abs(n) == IF n < 0 THEN -n ELSE n

\* n / d rounded to the nearest integer, ties away from zero (d > 0)
NearestAway(n, d) ==
    IF n < 0 THEN -((2 * (-n) + d) \div (2 * d)) ELSE (2 * n + d) \div (2 * d)

\* saturation, zero, range, monotonicity and oddness
ConvShape ==
    /\ conv_in > ConvOne => conv_out = S16_MAX
    /\ conv_in < -ConvOne => conv_out = -S16_MAX
    /\ conv_in = 0 => conv_out = 0
    /\ -S16_MAX <= conv_out /\ conv_out <= S16_MAX
    /\ conv_out <= floatToSigned(ConvFloat(conv_in + 1))
    /\ floatToSigned(ConvFloat(-conv_in)) = -conv_out

WrapRead ==
    pc[1] = "top" /\ pc'[1] # "top" /\ cyc_time_samps[1] = 0 /\ ~first[1]

\* the mute state changes
Flip == soundactive_latched'[1] # soundactive_latched[1]

\* C1, as stated: the mute state changes only in a tick that starts at cycle
\* position 0; any number (1, 2, ...) of requests raised between two wraps
\* gives exactly one flip at the next wrap, and no request gives no flip
C1_AsStated ==
    [][ /\ Flip => (pc[1] = "clear" /\ cyc_time_samps[1] = 0)
        /\ WrapRead => ((raised[1] >= 1) <=> (pc'[1] = "clear"))
        /\ WrapRead => ~Flip
        /\ (pc[1] = "clear" /\ pc'[1] # "clear") => (Flip /\ pc'[1] = "gen")
      ]_vars

\* C1, amended: as stated, for the requests that are not raised between a
\* wrap's read of the pending flag and its clearing of it; a request raised in
\* between is lost
C1_ToggleAtWrap ==
    [][ /\ Flip => (pc[1] = "clear" /\ cyc_time_samps[1] = 0)
        /\ WrapRead => ((raised_eff[1] >= 1) <=> (pc'[1] = "clear"))
        /\ WrapRead => ~Flip
        /\ (pc[1] = "clear" /\ pc'[1] # "clear") => (Flip /\ pc'[1] = "gen")
        /\ (pc[1] = "clear" /\ pc'[1] # "clear") => ~soundactive_toggle'[1]
      ]_vars

\* a wrap that found the most requests the model counts has made its one flip
C1_Witness ==
    /\ pc[1] = "gen"
    /\ wrap_reqs[1] = MaxReq
    /\ soundactive_latched[1]
    /\ ~soundactive_toggle[1]

(***************************************************************************)
(* Properties of the emitter (Spec, SpecFair)                              *)
(***************************************************************************)
\* what a retry must leave alone
Frame ==
    <<cyc_time_samps, imp_time_samps, vocalFilter, soundactive_latched, samp,
      timing, imp_samp, filtered_impulse, first>>

\* C3: every iteration of loop() ends with exactly one pair accepted by the
\* sink, the pair that was submitted; while the emitter retries, the cycle and
\* impulse positions, the filter, the mute state and the pair stay as they
\* are, the sink is given nothing new, and the retry counter goes up by one
\* per rejection
C3_OnePairPerTick ==
    [][ /\ (pc[1] = "emit" /\ pc'[1] = "emit") =>
              /\ UNCHANGED Frame
              /\ UNCHANGED <<delivered, out>>
              /\ yields'[1] \in {yields[1], yields[1] + 1}
        /\ (pc[1] = "emit" /\ pc'[1] # "emit") =>
              /\ pc'[1] = "top"
              /\ UNCHANGED Frame
              /\ UNCHANGED yields
              /\ out'[1] = samp[1]
              /\ delivered[1] = 0 /\ delivered'[1] = 1
        /\ (pc[1] = "top" /\ pc'[1] # "top" /\ ~first[1]) => delivered[1] = 1
        /\ (delivered'[1] > delivered[1]) => pc[1] = "emit"
      ]_vars

\* an iteration has ended after as many rejections as the model follows, with
\* its non-silent pair accepted once
C3_Witness ==
    /\ pc[1] = "top"
    /\ yields[1] = MaxYields
    /\ delivered[1] = 1
    /\ out[1] = samp[1]
    /\ samp[1] # <<0, 0>>

\* the breath cycle has wrapped and loop() is about to handle the wrap
AtWrap == pc[1] = "top" /\ cyc_time_samps[1] = 0 /\ ~first[1]

\* C4: no state is terminal; an iteration is left only through an accepted
\* pair (no timeout, no failure); and with a sink that accepts in the end,
\* every iteration completes and the breath cycle wraps again and again
C4_RunsForEver ==
    /\ [](pc[1] \in {"top", "clear", "gen", "emit"})
    /\ [](pc[1] = "top" => ENABLED LoopTop({1}))
    /\ [](pc[1] = "clear" => ENABLED WrapApply({1}))
    /\ [](pc[1] = "emit" => ENABLED ConsumeAccept({1}))
    /\ [][(pc[1] = "emit" /\ pc'[1] # "emit")
            => (pc'[1] = "top" /\ delivered'[1] = delivered[1] + 1)]_vars
    /\ (pc[1] = "emit") ~> (pc[1] = "top" /\ delivered[1] = 1)
    /\ []<>AtWrap

\* a cycle has wrapped that met as many rejections as the model follows
C4_Witness == AtWrap /\ yields[1] = MaxYields

(***************************************************************************)
(* Properties of the breath cycle (Spec)                                   *)
(***************************************************************************)
\* the step from the top of loop() to the call of ConsumeSample
TickStep == pc[1] = "gen" /\ pc'[1] = "emit"

\* the phase rule in the words of the spec
PhaseRule(c, t) ==
    IF c < t.inh_impulse_n THEN "INHALE"
    ELSE IF c < t.hold_n THEN "HOLD"
    ELSE IF c < t.exh_impulse_n THEN "EXHALE"
    ELSE "REST"

PhaseRank(ph) ==
    IF ph = "INHALE" THEN 1 ELSE IF ph = "HOLD" THEN 2
    ELSE IF ph = "EXHALE" THEN 3 ELSE 4

\* position, advance, wrap and phase order of one tick with timing t
CycleAdvance(t) ==
    /\ 0 <= cyc_time_samps[1] /\ cyc_time_samps[1] < t.rest_n
    /\ cyc_time_samps'[1] =
          IF cyc_time_samps[1] + 1 = t.rest_n THEN 0 ELSE cyc_time_samps[1] + 1
    /\ first[1] => cyc_time_samps[1] = 0
    /\ Phase(cyc_time_samps[1], t) = PhaseRule(cyc_time_samps[1], t)
    /\ cyc_time_samps'[1] # 0 =>
          PhaseRank(PhaseRule(cyc_time_samps'[1], t))
             >= PhaseRank(PhaseRule(cyc_time_samps[1], t))

\* C8, as stated: the cycle position is in 0..cycleLength-1, starts at 0 in
\* INHALE, advances by one per tick and wraps to 0 after cycleLength ticks;
\* the phase follows the thresholds, never moves back within a cycle, and
\* every cycle starts in INHALE
C8_AsStated ==
    [][TickStep =>
          /\ CycleAdvance(timing'[1])
          /\ cyc_time_samps[1] = 0
                => PhaseRule(0, timing'[1]) = "INHALE"]_vars

\* C8, amended: as stated when inhaleEnd > 0; when inhaleEnd = 0 (an inhale
\* shorter than one sample) the cycle has no INHALE and starts in the first
\* phase that is not empty
C8_CyclePosition ==
    [][TickStep =>
          /\ CycleAdvance(timing'[1])
          /\ cyc_time_samps[1] = 0
                => ((PhaseRule(0, timing'[1]) = "INHALE")
                       <=> (timing'[1].inh_impulse_n > 0))]_vars

\* a whole cycle with all four phases has been generated and has wrapped
C8_Witness ==
    /\ pc[1] = "emit"
    /\ cyc_time_samps[1] = 0
    /\ params = ShortBreath
    /\ timing[1].inh_impulse_n > 0
    /\ timing[1].rest_n > timing[1].exh_impulse_n

(***************************************************************************)
(* Properties of two runs side by side (SpecPair)                          *)
(***************************************************************************)
\* C2: the runs, whatever their toggle requests and mute states, have the
\* same cycle position, impulse position, filter input and filter state; the
\* filter is fed the enveloped impulse sample in every tick, muted or not; the
\* pair is (0, 0) when muted and twice the converted filtered value when not
C2_OutputStageGate ==
    /\ \A q, r \in Runs :
          /\ cyc_time_samps[q] = cyc_time_samps[r]
          /\ imp_time_samps[q] = imp_time_samps[r]
          /\ imp_samp[q] = imp_samp[r]
          /\ vocalFilter[q] = vocalFilter[r]
          /\ filtered_impulse[q] = filtered_impulse[r]
    /\ \A r \in Runs :
          /\ ~first[r] => vocalFilter[r][1] = imp_samp[r]
          /\ (pc[r] = "emit" /\ ~soundactive_latched[r]) => samp[r] = <<0, 0>>
          /\ (pc[r] = "emit" /\ soundactive_latched[r]) =>
                samp[r] = << floatToSigned(filtered_impulse[r]),
                             floatToSigned(filtered_impulse[r]) >>

\* one run is muted and silent, the other is not, on the same filter input
C2_Witness ==
    /\ pc[1] = "emit" /\ pc[2] = "emit"
    /\ soundactive_latched[1] /\ ~soundactive_latched[2]
    /\ samp[1] # <<0, 0>> /\ samp[2] = <<0, 0>>
    /\ imp_samp[1] # FZero

\* C5: runs that get the same toggle requests at the same places, whatever
\* rejections their sinks make, have the same mute state, submit and deliver
\* the same pairs, and stand at the same place of loop()
C5_RetryCounterUnused ==
    same_toggles =>
        \A q, r \in Runs :
            /\ soundactive_latched[q] = soundactive_latched[r]
            /\ soundactive_toggle[q] = soundactive_toggle[r]
            /\ samp[q] = samp[r]
            /\ out[q] = out[r]
            /\ delivered[q] = delivered[r]
            /\ pc[q] = pc[r]

\* after the same requests and different rejections, both runs are unmuted
\* and have delivered the same non-silent pair
C5_Witness ==
    /\ same_toggles
    /\ yields[1] = MaxYields /\ yields[2] = 0
    /\ soundactive_latched[1] /\ soundactive_latched[2]
    /\ pc[1] = "top" /\ pc[2] = "top"
    /\ out[1] # <<0, 0>> /\ out[1] = out[2]

(***************************************************************************)
(* Properties of the gate before the first toggle (Spec)                   *)
(***************************************************************************)
\* the filtered value on both channels
Passed(r) ==
    <<floatToSigned(filtered_impulse[r]), floatToSigned(filtered_impulse[r])>>

\* C11, as stated: the gate starts unmuted; until the first toggle is applied
\* at a wrap, every pair submitted is the converted filtered sample on both
\* channels
C11_AsStated ==
    (pc[1] = "emit" /\ ~toggled[1]) => samp[1] = Passed(1)

\* C11, amended: the gate starts muted; until the first toggle is applied at
\* a wrap, soundactive_latched is false and every pair submitted is (0, 0)
C11_StartsMuted ==
    ~toggled[1] =>
        /\ ~soundactive_latched[1]
        /\ pc[1] = "emit" => samp[1] = <<0, 0>>

\* before any toggle, a tick with a non-zero filtered sample has submitted
\* silence
C11_Witness ==
    /\ pc[1] = "emit"
    /\ ~toggled[1]
    /\ Passed(1) # <<0, 0>>
    /\ samp[1] = <<0, 0>>

(***************************************************************************)
(* Properties of the pending-toggle flag (Spec)                            *)
(***************************************************************************)
\* handleInterrupt has raised a request
Raise == raised'[1] > raised[1]

\* C12: the interrupt only sets the flag and leaves the mute state alone; the
\* flag is cleared only by the wrap handler, in a tick at cycle position 0,
\* together with a flip, and a wrap that reads it set always goes on to flip
\* and clear; a request raised between that read and the clear finds the
\* flag set, changes nothing and is cleared with it; a request raised at any
\* other place leaves the flag set, and it stays set until a wrap flips
C12_PendingSlot ==
    [][ /\ Raise => (soundactive_toggle'[1] /\ ~Flip /\ pc'[1] = pc[1])
        /\ (soundactive_toggle[1] /\ ~soundactive_toggle'[1]) =>
              (pc[1] = "clear" /\ pc'[1] = "gen" /\ Flip
                 /\ cyc_time_samps[1] = 0 /\ ~first[1])
        /\ (WrapRead /\ soundactive_toggle[1]) => pc'[1] = "clear"
        /\ pc[1] = "clear" => soundactive_toggle[1]
        /\ (pc[1] = "clear" /\ pc'[1] # "clear") => ~soundactive_toggle'[1]
        /\ (Raise /\ pc[1] = "clear") => UNCHANGED soundactive_toggle
      ]_vars

\* a request was raised between the read and the clear, and the wrap has made
\* its one flip and cleared the flag
C12_Witness ==
    /\ pc[1] = "gen"
    /\ raised[1] > raised_eff[1]
    /\ toggled[1]
    /\ ~soundactive_toggle[1]

(***************************************************************************)
(* Properties of the cycle-complete report (SpecFair)                      *)
(***************************************************************************)
\* the wrap handler of this iteration has printed its report and is done
Reported == pc[1] = "gen" /\ report[1] # <<>>

\* the second number of the report says "on"
SaysOn == report[1][2] = 1

\* the sound is on after the handler, and was on before it (the handler has
\* flipped exactly when it read the flag set, which is what it printed)
OnAfter == soundactive_latched[1]

OnBefore == soundactive_latched[1] # SaysOn

\* when, where and what the wrap handler reports: on leaving the top of
\* loop() at a wrap, the retry counter and a second number; nothing in any
\* other iteration; and the retry counter is 0 when the handler is done
ReportShape ==
    [][ /\ WrapRead => (report'[1] # <<>> /\ report'[1][1] = yields[1])
        /\ (pc[1] = "top" /\ pc'[1] # "top" /\ ~WrapRead) => report'[1] = <<>>
        /\ pc[1] # "top" => UNCHANGED report
        /\ (pc'[1] = "gen" /\ pc[1] # "gen" /\ report'[1] # <<>>)
              => yields'[1] = 0
        /\ yields'[1] > yields[1] =>
              (yields'[1] = yields[1] + 1 /\ pc[1] = "emit" /\ pc'[1] = "emit")
      ]_vars

BounceEdge ==
    /\ prev_edge # 0
    /\ Raise \/ prev_edge' # prev_edge
    /\ prev_edge' - prev_edge < DebounceMs

\* C14: of two switch edges less than 200 ms apart, the second raises no
\* toggle request
C14_Debounced == [][BounceEdge => ~Raise]_vars

\* what the handler does: it compares against a time that is never stored, so
\* every edge it sees sets the flag
C14_EveryEdgeRaises ==
    /\ [][(Raise \/ prev_edge' # prev_edge) =>
             (Raise /\ soundactive_toggle'[1])]_vars
    /\ last_interrupt_time[1] = 0

\* two requests have been raised and the last two edges were less than 200 ms
\* apart
C14_Witness ==
    /\ raised[1] = 2
    /\ prev_edge > SetupDelayMs
    /\ prev_edge - SetupDelayMs < DebounceMs

C15_WidthUndefined ==
    [][(TickStep /\ ~FLess(FZero, params.inh_imp_freq)) =>
          timing'[1].inh_impulse_width_samps \in {0, 2147483647}]_vars

\* a tick has divided by a zero frequency
C15_Witness ==
    /\ pc[1] = "emit"
    /\ params = ZeroInhale
    /\ ~IsFinite(FDiv(IntToFloat(SAMPLE_RATE), params.inh_imp_freq))

\* C16: the dirty flag is true in every reachable state, and every tick works
\* with the widths, pulse ends and phase boundaries derived from the settings
\* as they stand when the tick starts, however they were changed before it
C16_AlwaysFresh ==
    /\ [](PurrConfigUpdate = TRUE)
    /\ [][TickStep =>
            /\ timing'[1] = UpdateConfig(params)
            /\ cyc_time_samps'[1] =
                  NextCycleTime(cyc_time_samps[1], UpdateConfig(params))
            /\ imp_time_samps'[1] =
                  ImpulsePos(Phase(cyc_time_samps[1], UpdateConfig(params)),
                             imp_time_samps[1], UpdateConfig(params)) + 1
          ]_vars
    /\ [][timing'[1] # timing[1] => TickStep]_vars

\* after a change of the settings a tick has gone to cycle position 9, which
\* only the new settings have, with the new 2-sample inhale impulses
C16_Witness ==
    /\ pc[1] = "emit"
    /\ params = LongRest
    /\ cyc_time_samps[1] = 9
    /\ timing[1].rest_n = 10
    /\ timing[1].inh_impulse_width_samps = 2

(***************************************************************************)
(* Properties of the impulse time (Spec)                                   *)
(***************************************************************************)
\* the phase of the tick that this step is, and its impulse width
TickPhase == Phase(cyc_time_samps[1], timing'[1])

TickWidth ==
    IF TickPhase = "INHALE" THEN timing'[1].inh_impulse_width_samps
    ELSE timing'[1].exh_impulse_width_samps

TickActive == TickPhase \in {"INHALE", "EXHALE"}

\* C17: every tick of every phase adds exactly one to the impulse time; it is
\* set to 0 first only in an INHALE or EXHALE tick that finds it at or past
\* that phase's impulse width; nothing else changes it, so a phase starts
\* from the value the phases before it left
C17_ImpulseTime ==
    /\ [][TickStep =>
            imp_time_samps'[1] =
                (IF TickActive /\ imp_time_samps[1] >= TickWidth
                 THEN 0 ELSE imp_time_samps[1]) + 1]_vars
    /\ [][imp_time_samps'[1] # imp_time_samps[1] => TickStep]_vars

\* with no inhale, the first tick holds and leaves 1, and the first tick of
\* EXHALE has gone on from 1 to 2
C17_Witness ==
    /\ params = NoInhale
    /\ pc[1] = "emit"
    /\ Phase(0, timing[1]) = "HOLD"
    /\ Phase(1, timing[1]) = "EXHALE"
    /\ cyc_time_samps[1] = 2
    /\ imp_time_samps[1] = 2

(***************************************************************************)
(* Properties of the sample fed to the filter while pausing (Spec)         *)
(***************************************************************************)
PauseTick == TickStep /\ TickPhase \in {"HOLD", "REST"}

\* C18: in every HOLD or REST tick the sample fed to the vocal-tract filter
\* is 0, whatever the impulse time and whatever the envelope
C18_PauseFeedsZero == [][PauseTick => IsZero(imp_samp'[1])]_vars

\* what the tick feeds: 0.0 * sinf(progress * PI) with `progress` never
\* assigned, which is 0 for a finite envelope and NaN otherwise
C18_ZeroOrNaN ==
    [][PauseTick => (IsZero(imp_samp'[1]) \/ imp_samp'[1] = FNaN)]_vars

\* a HOLD or REST tick has fed NaN to the filter
C18_Witness ==
    /\ pc[1] = "emit"
    /\ imp_samp[1] = FNaN
    /\ vocalFilter[1][1] = FNaN
    /\ filtered_impulse[1] = FNaN

(***************************************************************************)
(* Properties of the impulse time that selects the waveform (Spec)         *)
(***************************************************************************)
\* the impulse time the tick selects the segment with: the one it leaves,
\* before "move to next impulse time"
UsedPos == imp_time_samps'[1] - 1

ActiveTick == TickStep /\ TickActive

\* the tick finds the impulse time at or past the width of its phase
PastWidth == imp_time_samps[1] >= TickWidth

\* C19, as stated: in every INHALE or EXHALE tick the impulse time used is
\* strictly less than the phase's impulse width; a tick that finds it at or
\* past the width uses 0 and its sample is 0
C19_AsStated ==
    [][ActiveTick => /\ UsedPos < TickWidth
                     /\ PastWidth => (UsedPos = 0 /\ IsZero(imp_samp'[1]))
      ]_vars

\* C19, amended: the same when the width is at least 1; when the width is 0
\* (an impulse frequency above the sample rate) every tick of the phase uses
\* 0, which is not less than the width, and its sample is 0
C19_UsedBelowWidth ==
    [][ActiveTick => /\ TickWidth > 0 => UsedPos < TickWidth
                     /\ TickWidth = 0 => UsedPos = 0
                     /\ PastWidth => (UsedPos = 0 /\ IsZero(imp_samp'[1]))
      ]_vars

\* the impulse time went to 5 while inhaling and holding; the first tick of
\* EXHALE, whose impulses are 3 samples wide, has used 0 and fed 0
C19_Witness ==
    /\ params = ShortBreath
    /\ pc[1] = "emit"
    /\ Phase(4, timing[1]) = "HOLD"
    /\ Phase(5, timing[1]) = "EXHALE"
    /\ timing[1].exh_impulse_width_samps = 3
    /\ cyc_time_samps[1] = 6
    /\ imp_time_samps[1] = 1
    /\ IsZero(imp_samp[1])

(***************************************************************************)
(* Properties of a pending request on its way to the wrap (SpecFair)       *)
(***************************************************************************)
CycleLength == UpdateConfig(params).rest_n

\* loop() stands in the wrap handler or right before it
WrapDue ==
    \/ pc[1] = "clear"
    \/ pc[1] \in {"top", "emit"} /\ cyc_time_samps[1] = 0 /\ ~first[1]

\* the ticks that loop() runs before it comes to the wrap handler
TicksToWrap == IF WrapDue THEN 0 ELSE CycleLength - cyc_time_samps[1]

\* the same after the step (the settings do not change)
TicksToWrapNext == IF WrapDue' THEN 0 ELSE CycleLength - cyc_time_samps'[1]

\* C20: a request pending when a wrap tick begins is applied in that tick
\* and the flag is cleared; a pending request stays pending until then, the
\* handler is never more than cycleLength ticks away and every tick brings
\* it one tick nearer, so with a sink that accepts in the end a request
\* raised outside the handler flips the mute state within cycleLength
\* ticks; the initial tick at position 0 applies nothing, and a request
\* raised before it waits for the first wrap
C20_AppliedAtNextWrap ==
    /\ [][(WrapRead /\ soundactive_toggle[1]) => pc'[1] = "clear"]_vars
    /\ [][pc[1] = "clear" =>
            \/ pc'[1] = "clear" /\ ~Flip /\ soundactive_toggle'[1]
            \/ pc'[1] = "gen" /\ Flip /\ ~soundactive_toggle'[1]
                              /\ cyc_time_samps'[1] = 0]_vars
    /\ [][(soundactive_toggle[1] /\ ~soundactive_toggle'[1]) =>
            (pc[1] = "clear" /\ Flip)]_vars
    /\ [](TicksToWrap \in 0..CycleLength)
    /\ [][TickStep => TicksToWrapNext = TicksToWrap - 1]_vars
    /\ [][(~TickStep /\ TicksToWrapNext # TicksToWrap) =>
            (TicksToWrap = 0 /\ TicksToWrapNext = CycleLength
             /\ pc'[1] = "gen" /\ (WrapRead \/ pc[1] = "clear"))]_vars
    /\ [][UNCHANGED params]_vars
    /\ [][(pc[1] = "top" /\ pc'[1] # "top" /\ first[1]) =>
            (pc'[1] = "gen" /\ ~Flip /\ UNCHANGED soundactive_toggle)]_vars
    /\ [][first[1] => ~Flip]_vars
    /\ (soundactive_toggle[1] /\ ~soundactive_latched[1])
          ~> soundactive_latched[1]
    /\ (soundactive_toggle[1] /\ soundactive_latched[1])
          ~> ~soundactive_latched[1]

\* a request was pending when the cycle wrapped; the handler has reported it,
\* switched the sound on and cleared the flag, and the next wrap is a whole
\* cycle away
C20_Witness ==
    /\ pc[1] = "gen"
    /\ cyc_time_samps[1] = 0
    /\ ~first[1]
    /\ report[1] # <<>>
    /\ report[1][2] = 1
    /\ soundactive_latched[1]
    /\ ~soundactive_toggle[1]
    /\ TicksToWrap = CycleLength

=============================================================================
